---- MODULE Spec2Model ----
(***************************************************************************)
(* Admission gate, job handlers, artifact cleanup and periodic sweep of    *)
(* the memory-optimized getPDFpress API server (src/server.js, 1-798).     *)
(*                                                                         *)
(* One job = one HTTP request to a gated endpoint.  Node runs the code on  *)
(* a single event loop, so every callback (request arrival, timer, the     *)
(* setImmediate re-entry, the continuation of an awaited promise) is one   *)
(* atomic action here.                                                     *)
(*                                                                         *)
(* Time is kept as an order, not as numbers.  clock lists, oldest first,   *)
(* everything that is waiting for a duration to pass: queue timers (30 s), *)
(* execution timers (60 s) and the mtimes of young artifacts (10 min).     *)
(* What started earlier with a duration that is not longer expires first.  *)
(***************************************************************************)
EXTENDS Integers, Sequences, FiniteSets, TLC

\* ---------------------------------------------------------------- bounds
NJobs == 2          \* requests that arrive during one run of Spec
NGate == 4          \* requests that arrive during one run of GateSpec
MaxFiles == 2       \* files a client attaches to one multi-file request

\* ------------------------------------------------------ program constants
MAX_CONCURRENT_REQUESTS == 1

Jobs == 1..NJobs
GateJobs == 1..NGate

Kinds == {"compress", "merge", "split", "pdf-to-images", "images-to-pdf",
          "pdf-to-word", "word-to-pdf"}

SingleFileKinds == {"compress", "split", "pdf-to-images", "pdf-to-word", "word-to-pdf"}
WordKinds == {"pdf-to-word", "word-to-pdf"}

\* Artifact names of one job, <<type, index>>: the uploaded inputs in
\* uploadsDir, the output file in outputDir, the images-<ts> directory in
\* outputDir, and the two LibreOffice scratch directories under /tmp.
Inputs(n) == {<<"in", i>> : i \in 1..n}
OutFile == <<"out", 0>>
ImgDir == <<"imgdir", 0>>
LoProfile == <<"lo-profile", 0>>
LoOutput == <<"lo-output", 0>>

VARIABLES
  activeRequests,   \* server.js:30
  requestQueue,     \* server.js:31, sequence of waiting jobs
  immediates,       \* setImmediate callbacks scheduled at server.js:155, in order
  phase,            \* per job: position of the request in its pipeline
  kind,             \* per job: endpoint, "none" until its route runs
  resp,             \* per job: status code of the response sent, 0 = headers not sent
  clock,            \* armed timers and young mtimes, in the order they started
  closed,           \* jobs whose req has emitted 'close'
  tracked,          \* per job: artifact names held in the handler's path variables
  fs,               \* artifacts that exist on disk: <<job, name>>
  holders,          \* history: jobs that incremented activeRequests and have not decremented it
  admitSeq,         \* history: jobs in the order they acquired a slot
  waited,           \* history: jobs that were pushed on requestQueue at least once
  overran,          \* history: jobs answered 504 while their collaborator was running
  fellBack,         \* history: compress jobs whose collaborator ran compressWithPdfLib
  call,             \* helper functions: the last call, its input and its result
  uploads,          \* helper functions: files multer stored, [id, at, original, path]
  conv,             \* full-featured variant: per conversion job, its handler's locals
  outFiles,         \* full-featured variant: files in the shared output directory
  now               \* full-featured variant: Date.now()

vars == <<activeRequests, requestQueue, immediates, phase, kind, resp, clock,
          closed, tracked, fs, holders, admitSeq, waited, overran, fellBack,
          call, uploads, conv, outFiles, now>>

\* the state of the gated server
serverVars == <<activeRequests, requestQueue, immediates, phase, kind, resp, clock,
                closed, tracked, fs, holders, admitSeq, waited, overran, fellBack>>

\* the state the gated server never touches
helperVars == <<call, uploads>>
fullVars == <<conv, outFiles, now>>
sideVars == <<helperVars, fullVars>>

InSeq(s, x) == \E i \in 1..Len(s) : s[i] = x

RemoveFrom(s, x) == SelectSeq(s, LAMBDA y : y # x)

ArtsOf(j) == {a \in fs : a[1] = j}

\* ------------------------------------------------------------ the clock

\* server.js:120-129, a queue timer of request j
QTimer(j) == [t |-> "queue", j |-> j, b |-> "-"]

\* server.js:139-144, the execution timer of request j
XTimer(j) == [t |-> "exec", j |-> j, b |-> "-"]

\* the mtime of the artifacts job j created together: its uploads and scratch
\* directories ("in"), its output file ("out")
MTime(j, b) == [t |-> "mtime", j |-> j, b |-> b]

BatchOf(name) == IF name = OutFile THEN "out" ELSE "in"

\* server.js:70 and 78: now - mtime > maxAge
IsOld(a) == ~InSeq(clock, MTime(a[1], BatchOf(a[2])))

\* setTimeout semantics: a 30 s timer fires once every 30 s timer armed
\* before it has fired or was cleared
QueueTimerDue(i) ==
  /\ i \in 1..Len(clock)
  /\ clock[i].t = "queue"
  /\ \A h \in 1..(i - 1) : clock[h].t # "queue"

\* a 60 s timer fires once every timer armed before it has fired or was cleared
ExecTimerDue(i) ==
  /\ i \in 1..Len(clock)
  /\ clock[i].t = "exec"
  /\ \A h \in 1..(i - 1) : clock[h].t = "mtime"

DropAt(s, i) == [h \in 1..(Len(s) - 1) |-> IF h < i THEN s[h] ELSE s[h + 1]]

\* the clock once the files in disk are all that is left: the mtime of a
\* deleted artifact is gone with it
Forget(c, disk) ==
  SelectSeq(c, LAMBDA e : e.t = "mtime" => \E a \in disk : a[1] = e.j /\ BatchOf(a[2]) = e.b)

InitOver(J) ==
  /\ activeRequests = 0
  /\ requestQueue = <<>>
  /\ immediates = <<>>
  /\ phase = [j \in J |-> "idle"]
  /\ kind = [j \in J |-> "none"]
  /\ resp = [j \in J |-> 0]
  /\ clock = <<>>
  /\ closed = {}
  /\ tracked = [j \in J |-> {}]
  /\ fs = {}
  /\ holders = {}
  /\ admitSeq = <<>>
  /\ waited = {}
  /\ overran = {}
  /\ fellBack = {}

\* ---------------------------------------------------------------- bounds
NFull == 2          \* conversion jobs of one run of FullSpec
MaxNow == 2         \* milliseconds that pass during one run of FullSpec

FullJobs == 1..NFull

NoCall == [fn |-> "none"]

HelperInit ==
  /\ call = NoCall
  /\ uploads = <<>>

\* the locals of a conversion handler that has not started
NoConv == [phase |-> "idle", before |-> 0, picked |-> 0, sent |-> 0]

FullInit ==
  /\ conv = [j \in FullJobs |-> NoConv]
  /\ outFiles = {}
  /\ now = 0

Init == InitOver(Jobs) /\ HelperInit /\ FullInit

\* ------------------------------------------------ requestQueueMiddleware

SaturatedLax == activeRequests > MAX_CONCURRENT_REQUESTS

\* server.js:114
Saturated == activeRequests >= MAX_CONCURRENT_REQUESTS

requestQueueMiddlewareNoReturn(j) ==
  /\ activeRequests' = activeRequests + 1
  /\ phase' = [phase EXCEPT ![j] = "admitted"]
  /\ holders' = holders \cup {j}
  /\ admitSeq' = Append(admitSeq, j)
  /\ IF Saturated
     THEN /\ requestQueue' = Append(requestQueue, j)
          /\ clock' = Append(Append(clock, QTimer(j)), XTimer(j))
          /\ waited' = waited \cup {j}
     ELSE /\ clock' = Append(clock, XTimer(j))
          /\ UNCHANGED <<requestQueue, waited>>

\* server.js:113-162, the synchronous body of the middleware for request j.
\* Enqueue branch (114-133) or admit branch (135-161): next() starts multer,
\* which is asynchronous, so the job is left in phase "admitted".
requestQueueMiddleware(j) ==
  IF Saturated
  THEN /\ requestQueue' = Append(requestQueue, j)
       /\ clock' = Append(clock, QTimer(j))
       /\ phase' = [phase EXCEPT ![j] = "waiting"]
       /\ waited' = waited \cup {j}
       /\ UNCHANGED <<activeRequests, holders, admitSeq>>
  ELSE /\ activeRequests' = activeRequests + 1
       /\ clock' = Append(clock, XTimer(j))
       /\ phase' = [phase EXCEPT ![j] = "admitted"]
       /\ holders' = holders \cup {j}
       /\ admitSeq' = Append(admitSeq, j)
       /\ UNCHANGED <<requestQueue, waited>>

\* A new request reaches the gate.  Jobs are numbered in arrival order.
Arrive(j) ==
  /\ phase[j] = "idle"
  /\ \A i \in DOMAIN phase : i < j => phase[i] # "idle"
  /\ requestQueueMiddleware(j)
  /\ UNCHANGED <<immediates, kind, resp, closed, tracked, fs, overran, fellBack, sideVars>>

ReenterDrop ==
  /\ immediates # <<>>
  /\ immediates' = Tail(immediates)
  /\ IF Saturated
     THEN UNCHANGED <<activeRequests, requestQueue, clock, phase, holders,
                      admitSeq, waited>>
     ELSE requestQueueMiddleware(Head(immediates))
  /\ UNCHANGED <<kind, resp, closed, tracked, fs, overran, fellBack, sideVars>>

\* server.js:155, the setImmediate callback re-enters the middleware
Reenter ==
  /\ immediates # <<>>
  /\ immediates' = Tail(immediates)
  /\ requestQueueMiddleware(Head(immediates))
  /\ UNCHANGED <<kind, resp, closed, tracked, fs, overran, fellBack, sideVars>>

wrappedEndNoImmediate(j) ==
  /\ activeRequests' = activeRequests - 1
  /\ holders' = holders \ {j}
  /\ IF Len(requestQueue) > 0
     THEN /\ requestQueue' = Tail(requestQueue)
          /\ UNCHANGED immediates
     ELSE UNCHANGED <<requestQueue, immediates>>

wrappedEndNoShift(j) ==
  /\ activeRequests' = activeRequests - 1
  /\ holders' = holders \ {j}
  /\ UNCHANGED <<requestQueue, immediates>>

\* server.js:147-159, the wrapped res.end of an admitted job; the clock is
\* the caller's, which clears the execution timer (148) in it
wrappedEnd(j) ==
  /\ activeRequests' = activeRequests - 1
  /\ holders' = holders \ {j}
  /\ IF Len(requestQueue) > 0
     THEN /\ immediates' = Append(immediates, Head(requestQueue))
          /\ requestQueue' = Tail(requestQueue)
     ELSE UNCHANGED <<requestQueue, immediates>>

RespondReleaseAgain(j, code) ==
  /\ resp' = [resp EXCEPT ![j] = IF @ = 0 THEN code ELSE @]
  /\ wrappedEnd(j)

RespondLast(j, code) ==
  IF resp[j] = 0
  THEN /\ resp' = [resp EXCEPT ![j] = code]
       /\ wrappedEnd(j)
  ELSE /\ resp' = [resp EXCEPT ![j] = code]
       /\ UNCHANGED <<activeRequests, requestQueue, immediates, holders>>

RespondAgain(j, code) ==
  /\ resp' = [resp EXCEPT ![j] = code]
  /\ wrappedEnd(j)

\* A response written by an admitted job's route or by its execution timer.
\* Once headers are sent, res.set / res.send throw before reaching res.end,
\* so a second response neither goes out nor runs the wrapper again.
Respond(j, code) ==
  IF resp[j] = 0
  THEN /\ resp' = [resp EXCEPT ![j] = code]
       /\ wrappedEnd(j)
  ELSE UNCHANGED <<resp, activeRequests, requestQueue, immediates, holders>>

\* the clock after a route step of job j that leaves disk on disk: the
\* response the step sends ends in the wrapper, which clears the execution
\* timer (server.js:148); stamps are the mtimes of what the step created
AfterStep(j, disk, stamps) ==
  Forget(IF resp[j] = 0 /\ resp'[j] # 0 THEN RemoveFrom(clock, XTimer(j)) ELSE clock,
         disk) \o stamps

ExecTimeoutNoEnd(j) ==
  /\ \E i \in 1..Len(clock) : ExecTimerDue(i) /\ clock[i] = XTimer(j)
  /\ clock' = RemoveFrom(clock, XTimer(j))
  /\ resp' = [resp EXCEPT ![j] = 504]
  /\ overran' = IF phase[j] = "collab" THEN overran \cup {j} ELSE overran
  /\ UNCHANGED <<activeRequests, requestQueue, immediates, holders>>
  /\ UNCHANGED <<phase, kind, closed, tracked, fs, admitSeq, waited, fellBack, sideVars>>

\* server.js:139-144, the execution timer of job j fires
ExecTimeout(j) ==
  /\ \E i \in 1..Len(clock) : ExecTimerDue(i) /\ clock[i] = XTimer(j)
  /\ clock' = RemoveFrom(clock, XTimer(j))
  /\ Respond(j, 504)
  /\ overran' = IF phase[j] = "collab" THEN overran \cup {j} ELSE overran
  /\ UNCHANGED <<phase, kind, closed, tracked, fs, admitSeq, waited, fellBack, sideVars>>

QueueTimeoutShift(j) ==
  /\ \E i \in 1..Len(clock) :
        /\ QueueTimerDue(i)
        /\ clock[i] = QTimer(j)
        /\ clock' = DropAt(clock, i)
  /\ IF InSeq(requestQueue, j)
     THEN /\ requestQueue' = Tail(requestQueue)
          /\ resp' = [resp EXCEPT ![j] = 503]
          /\ phase' = [phase EXCEPT ![j] = "rejected"]
     ELSE UNCHANGED <<requestQueue, resp, phase>>
  /\ UNCHANGED <<activeRequests, immediates, kind, closed, tracked, fs,
                 holders, admitSeq, waited, overran, fellBack, sideVars>>

QueueTimeoutNoLookup(j) ==
  /\ \E i \in 1..Len(clock) :
        /\ QueueTimerDue(i)
        /\ clock[i] = QTimer(j)
        /\ clock' = DropAt(clock, i)
  /\ requestQueue' = RemoveFrom(requestQueue, j)
  /\ resp' = [resp EXCEPT ![j] = 503]
  /\ phase' = [phase EXCEPT ![j] = IF InSeq(requestQueue, j) THEN "rejected" ELSE @]
  /\ UNCHANGED <<activeRequests, immediates, kind, closed, tracked, fs,
                 holders, admitSeq, waited, overran, fellBack, sideVars>>

QueueTimeoutNoSplice(j) ==
  /\ \E i \in 1..Len(clock) :
        /\ QueueTimerDue(i)
        /\ clock[i] = QTimer(j)
        /\ clock' = DropAt(clock, i)
  /\ IF InSeq(requestQueue, j)
     THEN /\ resp' = [resp EXCEPT ![j] = 503]
          /\ phase' = [phase EXCEPT ![j] = "rejected"]
          /\ UNCHANGED requestQueue
     ELSE UNCHANGED <<requestQueue, resp, phase>>
  /\ UNCHANGED <<activeRequests, immediates, kind, closed, tracked, fs,
                 holders, admitSeq, waited, overran, fellBack, sideVars>>

\* server.js:120-129, the oldest queue timer of job j fires
QueueTimeout(j) ==
  /\ \E i \in 1..Len(clock) :
        /\ QueueTimerDue(i)
        /\ clock[i] = QTimer(j)
        /\ clock' = DropAt(clock, i)
  /\ IF InSeq(requestQueue, j)
     THEN /\ requestQueue' = RemoveFrom(requestQueue, j)
          /\ resp' = [resp EXCEPT ![j] = 503]
          /\ phase' = [phase EXCEPT ![j] = "rejected"]
     ELSE UNCHANGED <<requestQueue, resp, phase>>
  /\ UNCHANGED <<activeRequests, immediates, kind, closed, tracked, fs,
                 holders, admitSeq, waited, overran, fellBack, sideVars>>

\* server.js:131, req emits 'close' (once): every listener clears its timer.
\* Listeners exist only on a request that went through the enqueue branch.
Close(j) ==
  /\ j \in waited
  /\ j \notin closed
  /\ closed' = closed \cup {j}
  /\ clock' = RemoveFrom(clock, QTimer(j))
  /\ UNCHANGED <<activeRequests, requestQueue, immediates, phase, kind, resp,
                 tracked, fs, holders, admitSeq, waited, overran, fellBack, sideVars>>

\* ------------------------------------------------------- route handlers

\* multer accepts one file for upload.single and several for upload.array
MaxUpload(k) == IF k \in SingleFileKinds THEN 1 ELSE MaxFiles

\* the validation at the head of each route: server.js:352, 396, 444, 490,
\* 536, 587, 653
ValidationFails(k, n) == IF k = "merge" THEN n < 2 ELSE n = 0

\* scratch directories a route creates before it invokes its collaborator:
\* server.js:495-496 (pdf-to-images), 602-605 and 667-670 (LibreOffice)
ScratchOf(k) ==
  IF k = "pdf-to-images" THEN {ImgDir}
  ELSE IF k \in WordKinds THEN {LoProfile, LoOutput}
  ELSE {}

\* the paths a route has stored in its local variables when it invokes its
\* collaborator, i.e. what its finally block will delete
PathsOf(k, n) ==
  IF k \in {"compress", "merge", "images-to-pdf"} THEN Inputs(n) \cup {OutFile}
  ELSE IF k = "split" THEN Inputs(n)
  ELSE Inputs(n) \cup ScratchOf(k)

Stamp(j, b, created) == IF created = {} THEN <<>> ELSE <<MTime(j, b)>>

\* multer fails the upload (LIMIT_FILE_SIZE): it removes what it stored and
\* passes the error on; the error handler, server.js:739-751, answers 413 and
\* the route never runs.
UploadRejected(j, k) ==
  /\ phase[j] = "admitted"
  /\ kind' = [kind EXCEPT ![j] = k]
  /\ phase' = [phase EXCEPT ![j] = "done"]
  /\ Respond(j, 413)
  /\ clock' = AfterStep(j, fs, <<>>)
  /\ UNCHANGED <<closed, tracked, fs, admitSeq, waited, overran, fellBack, sideVars>>

UnavailableNever(k, hasLibre) == FALSE

\* server.js:592-594 and 658-660: the LibreOffice probe of the two document
\* routes reports the binary absent
Unavailable(k, hasLibre) == k \in WordKinds /\ ~hasLibre

\* multer has stored n files and calls the route, which runs up to the await
\* of its collaborator: validation (400), for the LibreOffice routes the probe
\* (501), the path variables and the scratch directories.
StartHandler(j, k, n, hasLibre) ==
  /\ phase[j] = "admitted"
  /\ n \in 0..MaxUpload(k)
  /\ kind' = [kind EXCEPT ![j] = k]
  /\ IF ValidationFails(k, n)
     THEN /\ fs' = fs \cup ({j} \X Inputs(n))
          /\ tracked' = tracked
          /\ phase' = [phase EXCEPT ![j] = "cleanup"]
          /\ Respond(j, 400)
          /\ clock' = AfterStep(j, fs', Stamp(j, "in", Inputs(n)))
     ELSE IF Unavailable(k, hasLibre)
     THEN /\ fs' = fs \cup ({j} \X Inputs(n))
          /\ tracked' = [tracked EXCEPT ![j] = Inputs(n)]
          /\ phase' = [phase EXCEPT ![j] = "cleanup"]
          /\ Respond(j, 501)
          /\ clock' = AfterStep(j, fs', Stamp(j, "in", Inputs(n)))
     ELSE /\ fs' = fs \cup ({j} \X (Inputs(n) \cup ScratchOf(k)))
          /\ tracked' = [tracked EXCEPT ![j] = PathsOf(k, n)]
          /\ phase' = [phase EXCEPT ![j] = "collab"]
          /\ clock' = clock \o Stamp(j, "in", Inputs(n) \cup ScratchOf(k))
          /\ UNCHANGED <<resp, activeRequests, requestQueue, immediates, holders>>
  /\ UNCHANGED <<closed, admitSeq, waited, overran, fellBack, sideVars>>

compressWithGhostscriptNoFallback(hasGs, gsOk, libOk) ==
  IF ~hasGs THEN libOk ELSE gsOk

\* server.js:284-320 with 325-343: TRUE when compressWithGhostscript returns,
\* FALSE when it throws; hasGs is the probe, gsOk the gs run, libOk the pdf-lib
\* fallback
compressWithGhostscript(hasGs, gsOk, libOk) ==
  IF ~hasGs THEN libOk
  ELSE IF gsOk THEN TRUE
  ELSE libOk

\* What makes the collaborator of a route throw.  "open": fs.readFile or
\* fs.writeFile rejects (server.js:326, 341, 368, 409, 416, 449, 459, 546,
\* 560); "parse": pdf-lib rejects the document (327, 410, 450, 550-552);
\* "rasterizer": convert.bulk rejects (508); "exec": execPromise rejects
\* (605, 613, 670, 678); "no-output": the throw at 620 and 685.
CausesOf(k) ==
  IF k \in WordKinds THEN {"exec", "no-output"}
  ELSE IF k = "pdf-to-images" THEN {"rasterizer"}
  ELSE {"open", "parse"}

\* The collaborator of a running route returns (ok) or fails; the route sends
\* its response, 2xx or 500, and reaches its finally block.  wrote says whether
\* the output file exists afterwards (always after a success of the routes
\* that write one).
FinishCollab(j, ok, wrote) ==
  /\ phase[j] = "collab"
  /\ LET hasOut == kind[j] \in {"compress", "merge", "split", "images-to-pdf"}
     IN /\ (ok /\ hasOut) => wrote
        /\ ~hasOut => ~wrote
  /\ fs' = IF wrote THEN fs \cup {<<j, OutFile>>} ELSE fs
  /\ tracked' = IF kind[j] = "split" /\ wrote
                THEN [tracked EXCEPT ![j] = @ \cup {OutFile}]
                ELSE tracked
  /\ phase' = [phase EXCEPT ![j] = "cleanup"]
  /\ Respond(j, IF ok THEN 200 ELSE 500)
  /\ clock' = AfterStep(j, fs', IF wrote THEN <<MTime(j, "out")>> ELSE <<>>)
  /\ UNCHANGED <<kind, closed, admitSeq, waited, overran, sideVars>>

\* server.js:293 and 318: compressWithPdfLib is called when the probe fails
\* and when the gs run fails
RanPdfLib(hasGs, gsOk) == ~hasGs \/ ~gsOk

\* POST /api/compress, server.js:361-385: compressWithGhostscript settles
FinishCompress(j, hasGs, gsOk, libOk, wrote) ==
  /\ kind[j] = "compress"
  /\ FinishCollab(j, compressWithGhostscript(hasGs, gsOk, libOk), wrote)
  /\ fellBack' = IF RanPdfLib(hasGs, gsOk) THEN fellBack \cup {j} ELSE fellBack

\* server.js:507-508: fromPath(...).bulk(...) rejects when the rasterizer
\* binary cannot be spawned and when it fails on the document
convertBulk(hasRasterizer, runOk) == hasRasterizer /\ runOk

\* POST /api/pdf-to-images, server.js:508-525: convert.bulk settles; the route
\* has no probe, a rejection of either cause lands in the catch (516-521)
FinishImages(j, hasRasterizer, runOk) ==
  /\ kind[j] = "pdf-to-images"
  /\ FinishCollab(j, convertBulk(hasRasterizer, runOk), FALSE)
  /\ UNCHANGED fellBack

\* the other routes: the collaborator settles
FinishOther(j, ok, wrote) ==
  /\ kind[j] \notin {"compress", "pdf-to-images"}
  /\ FinishCollab(j, ok, wrote)
  /\ UNCHANGED fellBack

\* what fs.unlink can remove: a file of uploadsDir or outputDir
IsFile(a) == a[2][1] \in {"in", "out"}

\* a path variable that was never assigned (server.js:233, 242)
undefined == <<0, <<"undefined", 0>>>>

\* an entry of outputDir the process has no permission to remove
Locked == <<"locked", 0>>

\* fs.unlink (server.js:235): removes a file; rejects with ENOENT on a missing
\* path and with EISDIR / EPERM on a directory
fsUnlink(disk, a) ==
  IF a \in disk /\ IsFile(a)
  THEN [disk |-> disk \ {a}, threw |-> FALSE]
  ELSE [disk |-> disk, threw |-> TRUE]

safeUnlinkNoCatch(disk, a) == fsUnlink(disk, a)

\* server.js:232-239: nothing is done for a falsy path; the rejection of
\* fs.unlink is caught and ignored
safeUnlink(disk, a) ==
  IF a = undefined THEN [disk |-> disk, threw |-> FALSE]
  ELSE [disk |-> fsUnlink(disk, a).disk, threw |-> FALSE]

\* fs.rm with recursive and force (server.js:244, 96): removes the entry,
\* resolves on a missing path, rejects with EACCES / EPERM
fsRm(disk, a) ==
  IF a \in disk /\ a[2] = Locked
  THEN [disk |-> disk, threw |-> TRUE]
  ELSE [disk |-> disk \ {a}, threw |-> FALSE]

safeRmdirNoCatch(disk, a) == fsRm(disk, a)

\* server.js:241-248: nothing is done for a falsy path; any rejection of
\* fs.rm is caught
safeRmdir(disk, a) ==
  IF a = undefined THEN [disk |-> disk, threw |-> FALSE]
  ELSE [disk |-> fsRm(disk, a).disk, threw |-> FALSE]

RECURSIVE cleanupFilesNoCatch(_, _)
cleanupFilesNoCatch(disk, paths) ==
  IF paths = {} THEN [disk |-> disk, threw |-> FALSE]
  ELSE LET p == CHOOSE x \in paths : TRUE
           one == fsUnlink(disk, p)
       IN IF one.threw THEN one ELSE cleanupFilesNoCatch(one.disk, paths \ {p})

\* server.js:251-255: safeUnlink on each path in turn; a throw would end the loop
RECURSIVE cleanupFiles(_, _)
cleanupFiles(disk, paths) ==
  IF paths = {} THEN [disk |-> disk, threw |-> FALSE]
  ELSE LET p == CHOOSE x \in paths : TRUE
           one == safeUnlink(disk, p)
       IN IF one.threw THEN one ELSE cleanupFiles(one.disk, paths \ {p})

\* the safeRmdir calls of a finally block, one after the other
RECURSIVE removeDirs(_, _)
removeDirs(disk, paths) ==
  IF paths = {} THEN [disk |-> disk, threw |-> FALSE]
  ELSE LET p == CHOOSE x \in paths : TRUE
           one == safeRmdir(disk, p)
       IN IF one.threw THEN one ELSE removeDirs(one.disk, paths \ {p})

\* a finally block (server.js:384, 432, 478, 523-524, 576, 640-642, 705-707)
\* of job j run on disk: cleanupFiles on the file paths the route holds, then
\* safeRmdir on its directory paths
releaseArtifacts(disk, j) ==
  LET held == {j} \X tracked[j]
      files == {a \in held : IsFile(a)}
      unlinked == cleanupFiles(disk, files)
  IN IF unlinked.threw THEN unlinked ELSE removeDirs(unlinked.disk, held \ files)

\* the finally block of job j's route runs
Cleanup(j) ==
  /\ phase[j] = "cleanup"
  /\ fs' = releaseArtifacts(fs, j).disk
  /\ clock' = Forget(clock, fs')
  /\ phase' = [phase EXCEPT ![j] = "done"]
  /\ UNCHANGED <<activeRequests, requestQueue, immediates, kind, resp,
                 closed, tracked, holders, admitSeq, waited, overran, fellBack, sideVars>>

\* ------------------------------------------------------- periodic sweep

\* server.js:92
IsLoDir(a) == a[2][1] \in {"lo-profile", "lo-output"}

sweepEntryNoCatch(disk, a, old) ==
  IF a \in old THEN fsUnlink(disk, a) ELSE [disk |-> disk, threw |-> FALSE]

\* server.js:74-85, one entry of uploads/ or output/: stat, unlink when the
\* entry is older than maxAge; a rejection of either is caught and ignored
sweepEntry(disk, a, old) ==
  IF a \in old
  THEN [disk |-> fsUnlink(disk, a).disk, threw |-> FALSE]
  ELSE [disk |-> disk, threw |-> FALSE]

\* server.js:73-85, the loop over the entries of one directory; a throw would
\* leave it for the outer catch (104)
RECURSIVE sweepEntries(_, _, _)
sweepEntries(disk, entries, old) ==
  IF entries = {} THEN [disk |-> disk, threw |-> FALSE]
  ELSE LET a == CHOOSE x \in entries : TRUE
           one == sweepEntry(disk, a, old)
       IN IF one.threw THEN one ELSE sweepEntries(one.disk, entries \ {a}, old)

\* server.js:91-101, the loop over /tmp: every lo-profile-* and lo-output-*
\* entry is removed with fs.rm, whose rejection is caught and ignored
RECURSIVE sweepTmp(_, _)
sweepTmp(disk, entries) ==
  IF entries = {} THEN [disk |-> disk, threw |-> FALSE]
  ELSE LET a == CHOOSE x \in entries : TRUE
       IN sweepTmp(fsRm(disk, a).disk, entries \ {a})

\* server.js:67-108, one run of the interval callback on disk, old being the
\* entries whose mtime is more than maxAge ago: uploads/, then output/, then
\* /tmp; the outer catch (104) logs whatever was thrown
sweep(disk, old) ==
  LET inUploads == {a \in disk : a[2][1] = "in"}
      inOutput == {a \in disk : a[2][1] \in {"out", "imgdir", "locked"}}
      inTmp == {a \in disk : IsLoDir(a)}
      first == sweepEntries(disk, inUploads, old)
      second == IF first.threw THEN first ELSE sweepEntries(first.disk, inOutput, old)
      third == IF second.threw THEN second ELSE sweepTmp(second.disk, inTmp)
  IN [disk |-> third.disk, threw |-> FALSE]

\* server.js:67-108: files of uploads/ and output/ older than maxAge are
\* unlinked (unlink of a directory fails and is ignored); every lo-profile-*
\* and lo-output-* directory under /tmp is removed.
Swept == fs \ sweep(fs, {a \in fs : IsOld(a)}).disk

Sweep ==
  /\ Swept # {}
  /\ fs' = fs \ Swept
  /\ clock' = Forget(clock, fs')
  /\ UNCHANGED <<activeRequests, requestQueue, immediates, phase, kind, resp,
                 closed, tracked, holders, admitSeq, waited, overran, fellBack, sideVars>>

\* maxAge (server.js:70) has passed since the oldest young artifacts were
\* written; every timer armed before that has fired
Age ==
  /\ clock # <<>>
  /\ Head(clock).t = "mtime"
  /\ clock' = Tail(clock)
  /\ UNCHANGED <<activeRequests, requestQueue, immediates, phase, kind, resp,
                 closed, tracked, fs, holders, admitSeq, waited, overran, fellBack, sideVars>>

Next ==
  \/ \E j \in Jobs : Arrive(j)
  \/ Reenter
  \/ \E j \in Jobs : ExecTimeout(j)
  \/ \E j \in Jobs : QueueTimeout(j)
  \/ \E j \in Jobs : Close(j)
  \/ \E j \in Jobs, k \in Kinds : UploadRejected(j, k)
  \/ \E j \in Jobs, k \in Kinds, n \in 0..MaxFiles, hasLibre \in BOOLEAN :
        StartHandler(j, k, n, hasLibre)
  \/ \E j \in Jobs, hasGs, gsOk, libOk, wrote \in BOOLEAN :
        FinishCompress(j, hasGs, gsOk, libOk, wrote)
  \/ \E j \in Jobs, hasRasterizer, runOk \in BOOLEAN :
        FinishImages(j, hasRasterizer, runOk)
  \/ \E j \in Jobs, ok, wrote \in BOOLEAN : FinishOther(j, ok, wrote)
  \/ \E j \in Jobs : Cleanup(j)
  \/ Sweep
  \/ Age

Spec == Init /\ [][Next]_vars

healthBodyPending(hasGs, hasLibre) ==
  [status |-> "OK",
   active |-> activeRequests,
   queued |-> Len(requestQueue) + Len(immediates),
   maxConcurrent |-> MAX_CONCURRENT_REQUESTS,
   ghostscript |-> IF hasGs THEN "available" ELSE "not available",
   libreoffice |-> IF hasLibre THEN "available" ELSE "not available"]

\* server.js:719-733, the body GET /api/health sends (memory figures left out)
healthBody(hasGs, hasLibre) ==
  [status |-> "OK",
   active |-> activeRequests,
   queued |-> Len(requestQueue),
   maxConcurrent |-> MAX_CONCURRENT_REQUESTS,
   ghostscript |-> IF hasGs THEN "available" ELSE "not available",
   libreoffice |-> IF hasLibre THEN "available" ELSE "not available"]

\* server.js:714-716: GET /api/health arrives; the route is not behind the
\* middleware (221-227) and awaits the two probes
HealthStart ==
  /\ call = NoCall
  /\ call' = [fn |-> "health"]
  /\ UNCHANGED <<uploads, serverVars, fullVars>>

\* server.js:719-733: the probes have settled and res.json sends healthBody;
\* res.end of this response is not the wrapped one
HealthRespond(hasGs, hasLibre) ==
  /\ call = [fn |-> "health"]
  /\ healthBody(hasGs, hasLibre).status = "OK"
  /\ call' = NoCall
  /\ UNCHANGED <<uploads, serverVars, fullVars>>

\* the server with its health endpoint
HealthNext ==
  \/ Next
  \/ HealthStart
  \/ \E hasGs, hasLibre \in BOOLEAN : HealthRespond(hasGs, hasLibre)

HealthSpec == Init /\ [][HealthNext]_vars

\* Node fires every timer that stays armed
FairSpec ==
  /\ Spec
  /\ \A j \in Jobs : WF_vars(ExecTimeout(j)) /\ WF_vars(QueueTimeout(j))

\* The gate under more requests.  The gate sees a request only through the
\* moment its response ends, whatever the route and the status code, and the
\* sweep never touches the gate.  The requests of GateSpec carry no usable
\* file: the route answers at its validation (400) or multer's error is
\* answered (413), as soon or as late as the upload ends, and the execution
\* timer answers 504 when that comes first; the route then still runs, late.
GateInit == InitOver(GateJobs) /\ HelperInit /\ FullInit

GateNext ==
  \/ \E j \in GateJobs : Arrive(j)
  \/ Reenter
  \/ \E j \in GateJobs : ExecTimeout(j)
  \/ \E j \in GateJobs : QueueTimeout(j)
  \/ \E j \in GateJobs : Close(j)
  \/ \E j \in GateJobs : UploadRejected(j, "compress")
  \/ \E j \in GateJobs : StartHandler(j, "compress", 0, TRUE)
  \/ \E j \in GateJobs : Cleanup(j)

GateSpec == GateInit /\ [][GateNext]_vars

\* Node fires every timer that stays armed and runs every setImmediate
\* callback
GateFairSpec ==
  /\ GateSpec
  /\ WF_vars(Reenter)
  /\ \A j \in GateJobs : WF_vars(ExecTimeout(j)) /\ WF_vars(QueueTimeout(j))

\* ------------------------------------------------------ helper functions

\* ---------------------------------------------------------------- bounds
MaxName == 3        \* characters of a client-supplied file name
MaxUploads == 2     \* files multer stores during one run of HelperSpec
MaxMs == 1          \* milliseconds that pass during one run of HelperSpec

\* the characters of client-supplied names: a lower-case and an upper-case
\* letter, the dot and a shell metacharacter
Chars == {"a", "A", ".", "$"}

Names == UNION {[1..n -> Chars] : n \in 1..MaxName}

LastDot(s) ==
  IF \E i \in 1..Len(s) : s[i] = "."
  THEN CHOOSE i \in 1..Len(s) : s[i] = "." /\ \A h \in (i + 1)..Len(s) : s[h] # "."
  ELSE 0

\* path.extname (server.js:174): from the last dot to the end; empty when
\* there is no dot, when the last dot is the first character, and for ".."
extname(s) ==
  IF LastDot(s) <= 1 \/ s = <<".", ".">> THEN <<>>
  ELSE SubSeq(s, LastDot(s), Len(s))

\* path.basename(name, ext) (server.js:175) of a name without directories
basename(s, ext) == SubSeq(s, 1, Len(s) - Len(ext))

toLowerCase(s) == [i \in 1..Len(s) |-> IF s[i] = "A" THEN "a" ELSE s[i]]

\* server.js:167: every character outside [a-zA-Z0-9._-] becomes "_"
sanitize(s) == [i \in 1..Len(s) |-> IF s[i] \in {"a", "A", ".", "_"} THEN s[i] ELSE "_"]

\* server.js:173-177: the name multer stores a file under, Date.now() first
filename(at, original) ==
  LET ext == extname(original) IN
  [at |-> at, name |-> <<"-">> \o sanitize(basename(original, ext)) \o toLowerCase(ext)]

\* multer stores one more file of a request (server.js:169-178)
StoreUpload(at, original) ==
  /\ Len(uploads) < MaxUploads
  /\ \A i \in 1..Len(uploads) : uploads[i].at <= at
  /\ uploads' = Append(uploads, [id |-> Len(uploads) + 1, at |-> at, original |-> original,
                                 path |-> filename(at, original)])
  /\ call' = [fn |-> "filename"]
  /\ UNCHANGED <<serverVars, fullVars>>

\* how "gs --version" / "libreoffice --version" run by child_process.exec end
ExecOutcomes == {"exit 0", "not found", "not permitted", "exit nonzero", "spawn error"}

\* util.promisify(exec): resolves on exit status 0, rejects otherwise
execPromise(outcome) == [threw |-> outcome # "exit 0"]

probeNoCatch(outcome) == [out |-> TRUE, threw |-> execPromise(outcome).threw]

\* server.js:260-267 and 272-279: true after the awaited exec, false in the
\* catch
probe(outcome) == [out |-> ~execPromise(outcome).threw, threw |-> FALSE]

isGhostscriptAvailable(outcome) == probe(outcome)

checkLibreOffice(outcome) == probe(outcome)

\* a probe is called (from a route, from /api/health, at start-up)
Probe(tool, outcome) ==
  /\ call' = [fn |-> tool, in |-> outcome,
              out |-> IF tool = "checkLibreOffice" THEN checkLibreOffice(outcome).out
                      ELSE isGhostscriptAvailable(outcome).out,
              threw |-> IF tool = "checkLibreOffice" THEN checkLibreOffice(outcome).threw
                        ELSE isGhostscriptAvailable(outcome).threw]
  /\ UNCHANGED <<uploads, serverVars, fullVars>>

Probes == {"isGhostscriptAvailable", "checkLibreOffice"}

HelperNext ==
  \/ \E at \in 0..MaxMs, original \in Names : StoreUpload(at, original)

HelperSpec == Init /\ [][HelperNext]_vars

\* the entries a helper call can meet: an upload, an output file, an images
\* directory, a LibreOffice profile directory, an entry that cannot be removed
Entries == {1} \X {<<"in", 1>>, OutFile, ImgDir, LoProfile, Locked}

Releasers == {"safeUnlink", "safeRmdir", "cleanupFiles"}

\* one of the release helpers is called with paths while disk is on disk
ReleaseCall(fn, disk, paths) ==
  /\ fn # "cleanupFiles" => Cardinality(paths) = 1
  /\ LET a == CHOOSE x \in paths : TRUE
         res == IF fn = "safeUnlink" THEN safeUnlink(disk, a)
                ELSE IF fn = "safeRmdir" THEN safeRmdir(disk, a)
                ELSE cleanupFiles(disk, paths)
     IN call' = [fn |-> fn, disk |-> disk, paths |-> paths,
                 out |-> res.disk, threw |-> res.threw]
  /\ UNCHANGED <<uploads, serverVars, fullVars>>

\* the interval callback runs while disk is on disk and old is past maxAge
SweepCall(disk, old) ==
  /\ call' = [fn |-> "sweep", disk |-> disk, old |-> old,
              out |-> sweep(disk, old).disk, threw |-> sweep(disk, old).threw]
  /\ UNCHANGED <<uploads, serverVars, fullVars>>

\* the values of the multipart field targetSize: its characters, one string
\* each; the field left out reaches parseInt as undefined, which parseInt
\* reads as the text "undefined"
NoField == <<"undefined">>

Targets ==
  { NoField, <<>>, <<"a", "b", "c">>,
    <<"-", "5">>, <<"1", "5", "0">>, <<"2", "0", "0">>, <<"2", "0", "1">>,
    <<"5", "0", "0">>, <<"5", "0", "1">>, <<"9", "0", "0">>,
    <<"2", "0", "0", ".", "0">>, <<"2", "0", "0", ".", "5">>,
    <<"5", "0", "0", ".", "5">>, <<"1", "5", "0", "k", "b">> }

\* the values of the field compressionLevel
Levels == {"undefined", "gentle", "strong", "balanced", "maximum"}

Digits == {"0", "1", "2", "3", "4", "5", "6", "7", "8", "9"}

DigitVal(c) == CHOOSE n \in 0..9 : <<"0", "1", "2", "3", "4", "5", "6", "7", "8", "9">>[n + 1] = c

\* the value of the longest prefix of digits of str, after acc
RECURSIVE ScanDigits(_, _)
ScanDigits(str, acc) ==
  IF str = <<>> \/ Head(str) \notin Digits THEN acc
  ELSE ScanDigits(Tail(str), 10 * acc + DigitVal(Head(str)))

NaN == [nan |-> TRUE, v |-> 0]

\* parseInt (server.js:358): an optional sign, then the digits up to the first
\* character that is none; NaN when there is no digit
parseInt(str) ==
  LET neg == str # <<>> /\ Head(str) = "-"
      body == IF neg THEN Tail(str) ELSE str
  IN IF body = <<>> \/ Head(body) \notin Digits THEN NaN
     ELSE [nan |-> FALSE,
           v |-> IF neg THEN 0 - ScanDigits(body, 0) ELSE ScanDigits(body, 0)]

\* x <= k in JavaScript: false for NaN
LessEq(x, k) == ~x.nan /\ x.v <= k

\* server.js:296-309
quality(compressionLevel, targetSizeKB) ==
  IF compressionLevel = "gentle" THEN "/printer"
  ELSE IF compressionLevel = "strong" THEN "/screen"
  ELSE IF LessEq(targetSizeKB, 200) THEN "/screen"
  ELSE IF LessEq(targetSizeKB, 500) THEN "/ebook"
  ELSE "/printer"

\* server.js:356-366: POST /api/compress reads the two fields (the level
\* defaults to "balanced"), parses the target and passes both on to
\* compressWithGhostscript, which chooses -dPDFSETTINGS
QualityCall(level, target) ==
  /\ call' = [fn |-> "quality", level |-> level, target |-> target,
              out |-> quality(IF level = "undefined" THEN "balanced" ELSE level,
                              parseInt(target))]
  /\ UNCHANGED <<uploads, serverVars, fullVars>>

CallNext ==
  \/ \E tool \in Probes, outcome \in ExecOutcomes : Probe(tool, outcome)
  \/ \E fn \in Releasers, disk \in SUBSET Entries,
         paths \in SUBSET (Entries \cup {undefined}) : ReleaseCall(fn, disk, paths)
  \/ \E disk \in SUBSET Entries : \E old \in SUBSET disk : SweepCall(disk, old)
  \/ \E level \in Levels, target \in Targets : QualityCall(level, target)

CallSpec == Init /\ [][CallNext]_vars

\* --------------------------------------------- the full-featured variant
\* The second server of src/server.js (800-1585) has no admission gate; its
\* two document routes let LibreOffice write into the shared output directory
\* and then look for the newest matching file.  Jobs here are requests to one
\* of the two routes, all to the same one, that passed validation and probe.

\* server.js:1319-1328 (1420-1429): beforeConversion is taken and
\* LibreOffice is started
StartConversion(j) ==
  /\ conv[j].phase = "idle"
  /\ conv' = [conv EXCEPT ![j] = [@ EXCEPT !.phase = "exec", !.before = now]]
  /\ UNCHANGED <<outFiles, now, serverVars, helperVars>>

\* server.js:1328 (1429): LibreOffice exits; with ok it has written the
\* converted file of job j into outputDir, without it execPromise rejects and
\* the catch (1379-1385) answers 500; a run takes more than a millisecond
LibreOfficeExits(j, ok) ==
  /\ conv[j].phase = "exec"
  /\ now > conv[j].before
  /\ outFiles' = IF ok THEN outFiles \cup {[owner |-> j, mtime |-> now]} ELSE outFiles
  /\ conv' = [conv EXCEPT ![j] = [@ EXCEPT !.phase = IF ok THEN "written" ELSE "finally"]]
  /\ UNCHANGED <<now, serverVars, helperVars>>

\* server.js:1334-1352 (1435-1453): the files of outputDir with the wanted
\* extension and mtimeMs >= beforeConversion
Candidates(j) == {f \in outFiles : f.mtime >= conv[j].before}

\* server.js:1361-1362 (1462-1463): sorted newest first, the first one; among
\* files of equal mtime the order is that of readdir
Newest(j) == {f \in Candidates(j) : \A g \in Candidates(j) : g.mtime <= f.mtime}

\* server.js:1331-1378 (1432-1478): the route lists outputDir, picks the
\* newest candidate as docxPath, reads it and sends it; with no candidate it
\* throws (1354-1358) and the catch answers 500
PickNewest(j) ==
  /\ conv[j].phase = "written"
  /\ IF Candidates(j) = {}
     THEN conv' = [conv EXCEPT ![j] = [@ EXCEPT !.phase = "finally"]]
     ELSE \E f \in Newest(j) :
            conv' = [conv EXCEPT ![j] = [@ EXCEPT !.phase = "finally",
                                                  !.picked = f.owner, !.sent = f.owner]]
  /\ UNCHANGED <<outFiles, now, serverVars, helperVars>>

\* server.js:1386-1390 (1485-1489): safeUnlink(docxPath)
FinallyFull(j) ==
  /\ conv[j].phase = "finally"
  /\ outFiles' = {f \in outFiles : f.owner # conv[j].picked}
  /\ conv' = [conv EXCEPT ![j] = [@ EXCEPT !.phase = "done"]]
  /\ UNCHANGED <<now, serverVars, helperVars>>

\* a millisecond passes
TickFull ==
  /\ now < MaxNow
  /\ now' = now + 1
  /\ UNCHANGED <<conv, outFiles, serverVars, helperVars>>

FullNext ==
  \/ \E j \in FullJobs : StartConversion(j)
  \/ \E j \in FullJobs, ok \in BOOLEAN : LibreOfficeExits(j, ok)
  \/ \E j \in FullJobs : PickNewest(j)
  \/ \E j \in FullJobs : FinallyFull(j)
  \/ TickFull

FullSpec == Init /\ [][FullNext]_vars

\* ------------------------------------------------------- response bodies

\* a string of a response body: its text and the internal paths it embeds
Msg(text, paths) == [text |-> text, paths |-> paths]

\* error.message of what the collaborator of job j throws.  Node's fs errors
\* name the path ("ENOENT: no such file or directory, open '<path>'"), and
\* the error of child_process.exec starts with "Command failed: " followed by
\* the command line, which server.js:607-611 and 672-676 build from
\* loProfileDir, tempOutputDir and inputPath.
ErrorMessage(j, cause) ==
  IF cause = "open" THEN Msg("fs error naming the path", {<<j, <<"in", 1>>>>})
  ELSE IF cause = "exec"
  THEN Msg("Command failed: <command>", {j} \X (Inputs(1) \cup {LoProfile, LoOutput}))
  ELSE Msg(cause, {})

\* the JSON object sent with a failure status to job j on route k:
\* server.js:124-127 (503), 142 (504), 742-746 (413), 353, 397-400, 445, 491,
\* 537, 588, 654 (400), 595-599 and 661-664 (501), 379-382, 427-430, 473-476,
\* 518-521, 571-574, 635-638, 700-703 (500)
Body(j, code, k, cause) ==
  IF code = 503
  THEN [error |-> Msg("Server busy", {}), message |-> Msg("Too many concurrent requests", {})]
  ELSE IF code = 504 THEN [error |-> Msg("Request timeout", {})]
  ELSE IF code = 413
  THEN [error |-> Msg("File too large", {}), message |-> Msg("File must be under 25MB", {}),
        maxSize |-> Msg("25MB", {})]
  ELSE IF code = 400
  THEN IF k = "merge"
       THEN [error |-> Msg("Need at least 2 files", {}),
             message |-> Msg("Please upload at least 2 PDF files", {})]
       ELSE [error |-> Msg("No file uploaded", {})]
  ELSE IF code = 501
  THEN IF k = "pdf-to-word"
       THEN [error |-> Msg("Feature not available", {}),
             message |-> Msg("PDF to Word requires LibreOffice", {}),
             suggestion |-> Msg("This feature is coming soon!", {})]
       ELSE [error |-> Msg("Feature not available", {}),
             message |-> Msg("Word to PDF requires LibreOffice", {})]
  ELSE IF k \in WordKinds
  THEN [error |-> Msg("Conversion failed", {}), message |-> ErrorMessage(j, cause)]
  ELSE [error |-> Msg("failed", {}), details |-> ErrorMessage(j, cause)]

\* ================================================================ claims

AllJobs == DOMAIN phase

Pos(s, x) == CHOOSE i \in 1..Len(s) : s[i] = x

\* C1: in every reachable state the number of jobs holding a slot, which is
\* what activeRequests counts, is at most MAX_CONCURRENT_REQUESTS.
C1_SlotLimit ==
  /\ activeRequests = Cardinality(holders)
  /\ activeRequests <= MAX_CONCURRENT_REQUESTS

\* the slot is taken again while a dequeued entry still waits for its
\* setImmediate re-entry and another entry is queued behind it
C1_Witness ==
  /\ activeRequests = MAX_CONCURRENT_REQUESTS
  /\ immediates # <<>>
  /\ requestQueue # <<>>

\* C2: of two jobs that both waited, the one enqueued first (the lower job
\* number: jobs are numbered in arrival order and are enqueued on arrival) is
\* admitted first.
C2_Fifo ==
  \A a, b \in waited :
    (a < b /\ InSeq(admitSeq, a) /\ InSeq(admitSeq, b))
      => Pos(admitSeq, a) < Pos(admitSeq, b)

\* C3: while an entry dequeued by a release waits for its re-entry, the next
\* job to acquire a slot is that entry.
C3_HeadNext ==
  [][\A j \in AllJobs :
       (j \notin holders /\ j \in holders' /\ immediates # <<>>)
         => j = Head(immediates)]_vars

C5_NoLeak == \A j \in AllJobs : phase[j] = "done" => ArtsOf(j) = {}

\* C6: a job's slot is released only when none of its artifacts is left.
C6_CleanBeforeRelease ==
  [][\A j \in AllJobs :
       (j \in holders /\ j \notin holders') => {a \in fs' : a[1] = j} = {}]_vars

\* C7: the execution timer of a job whose collaborator has not returned answers
\* 504, and a sweep that finds every artifact of such a job older than the
\* retention window leaves none of them.
C7_TimedOutCleaned ==
  /\ [](\A j \in overran : resp[j] = 504)
  /\ [][Sweep =>
          \A j \in overran :
            (phase[j] = "collab" /\ \A a \in ArtsOf(j) : IsOld(a))
              => {a \in fs' : a[1] = j} = {}]_vars

\* C8: at most MAX_CONCURRENT_REQUESTS collaborators are running at once, and
\* no job holds a slot while the collaborator of a job answered 504 still runs.
C8_NoOverlap ==
  /\ Cardinality({j \in AllJobs : phase[j] = "collab"}) <= MAX_CONCURRENT_REQUESTS
  /\ \A j \in overran : phase[j] = "collab" => holders = {}

Count(s, x) == Cardinality({i \in 1..Len(s) : s[i] = x})

\* C9: a queue timer that fires while its job is in the wait list removes the
\* job and answers 503; a job answered 503 never held a slot, never ran its
\* route, has no artifact, and its answer stays 503.
C9_QueueDeadline ==
  /\ [](\A j \in AllJobs :
          resp[j] = 503 =>
            /\ phase[j] = "rejected"
            /\ ~InSeq(requestQueue, j) /\ ~InSeq(immediates, j)
            /\ j \notin holders /\ ~InSeq(admitSeq, j) /\ ~InSeq(clock, XTimer(j))
            /\ kind[j] = "none" /\ tracked[j] = {} /\ ArtsOf(j) = {})
  /\ [][\A j \in AllJobs :
          (/\ Count(clock', QTimer(j)) < Count(clock, QTimer(j))
           /\ closed' = closed
           /\ InSeq(requestQueue, j))
            => (resp'[j] = 503 /\ ~InSeq(requestQueue', j))]_vars
  /\ [][\A j \in AllJobs : resp[j] = 503 => resp'[j] = 503]_vars

\* a job was rejected by its deadline while another job holds the slot
C9_Witness ==
  \E j \in AllJobs : resp[j] = 503 /\ phase[j] = "rejected" /\ holders # {}

\* the maximum C10 speaks of, for the requests of one run
QueueCap == NGate - 2

\* C10: the wait list never holds more than a fixed maximum of entries, and a
\* request that arrives when it is full is answered 503 and not enqueued.
C10_Bounded ==
  /\ [](Len(requestQueue) <= QueueCap)
  /\ [][\A j \in AllJobs :
          (phase[j] = "idle" /\ phase'[j] # "idle" /\ Saturated
             /\ Len(requestQueue) >= QueueCap)
            => (resp'[j] = 503 /\ requestQueue' = requestQueue)]_vars

\* C11: a 'close' of a request that is in the wait list removes its entry; an
\* entry of a closed request is never dequeued for admission; and every entry
\* of the wait list has an armed queue timer.
C11_CloseRemoves ==
  /\ [][\A j \in AllJobs :
          (j \notin closed /\ j \in closed' /\ InSeq(requestQueue, j))
            => ~InSeq(requestQueue', j)]_vars
  /\ [][\A j \in AllJobs :
          (j \in closed /\ InSeq(requestQueue, j)) => ~InSeq(immediates', j)]_vars
  /\ [](\A j \in AllJobs : InSeq(requestQueue, j) => InSeq(clock, QTimer(j)))

\* C12: a sweep deletes no artifact of a job whose route is still running
\* (admitted, or waiting for its collaborator to return).
C12_SweepSparesInFlight ==
  [][Sweep => \A a \in fs \ fs' : phase[a[1]] \notin {"admitted", "collab"}]_vars

\* C13: a sweep leaves on disk every artifact that is younger than the
\* retention window, whatever its kind.
C13_SweepSparesYoung ==
  [][Sweep => \A a \in fs : ~IsOld(a) => a \in fs']_vars

\* C14: a sweep deletes every artifact older than the retention window whose
\* owning job has been answered and is not about to run its finally block,
\* whatever its kind.
C14_SweepTakesOld ==
  [][Sweep =>
       \A a \in fs :
         (IsOld(a) /\ resp[a[1]] # 0 /\ phase[a[1]] # "cleanup") => a \notin fs']_vars

\* C15: running a job's finally-block cleanup a second time raises no error
\* and leaves the disk exactly as the first run left it, from every reachable
\* disk and set of held paths.
C15_Idempotent ==
  \A j \in AllJobs :
    LET once == releaseArtifacts(fs, j)
        twice == releaseArtifacts(once.disk, j)
    IN ~once.threw /\ ~twice.threw /\ twice.disk = once.disk

\* a finally block is about to remove a file and a directory that exist
C15_Witness ==
  \E j \in AllJobs :
    /\ phase[j] = "cleanup"
    /\ \E a \in ArtsOf(j) : a[2] \in tracked[j] /\ IsFile(a)
    /\ \E a \in ArtsOf(j) : a[2] \in tracked[j] /\ ~IsFile(a)

\* C16: a compress job that has not been answered yet and whose fallback
\* succeeds, after a failed probe or after a failed gs run, is answered 200;
\* it is answered 500 only when the fallback ran and failed.
C16_Fallback ==
  [][\A j \in AllJobs, hasGs, gsOk, libOk, wrote \in BOOLEAN :
       (FinishCompress(j, hasGs, gsOk, libOk, wrote) /\ resp[j] = 0)
         => /\ (~hasGs /\ libOk) => resp'[j] = 200
            /\ (hasGs /\ ~gsOk /\ libOk) => resp'[j] = 200
            /\ resp'[j] = 500 => (RanPdfLib(hasGs, gsOk) /\ ~libOk)]_vars

\* a compress job was answered 200 by the fallback
C16_Witness ==
  \E j \in fellBack : kind[j] = "compress" /\ resp[j] = 200 /\ j \notin overran

\* C17: a pdf-to-word or word-to-pdf route that finds LibreOffice absent
\* answers 501 (if the job was not answered before), never 500, creates
\* nothing beyond the upload, and its finally block deletes the upload.
C17_Unavailable ==
  /\ [][\A j \in AllJobs, k \in WordKinds :
          StartHandler(j, k, 1, FALSE)
            => /\ resp[j] = 0 => resp'[j] = 501
               /\ resp'[j] # 500
               /\ {a \in fs' : a[1] = j} = {j} \X Inputs(1)
               /\ tracked'[j] = Inputs(1)
               /\ phase'[j] = "cleanup"]_vars
  /\ [](\A j \in AllJobs :
          (kind[j] \in WordKinds /\ tracked[j] = Inputs(1))
            => /\ ArtsOf(j) \subseteq {j} \X Inputs(1)
               /\ phase[j] = "done" => ArtsOf(j) = {})
  /\ [][\A j \in AllJobs : resp[j] = 501 => resp'[j] = 501]_vars

\* a document route answered 501 and its handler has finished
C17_Witness ==
  \E j \in AllJobs :
    kind[j] \in WordKinds /\ resp[j] = 501 /\ phase[j] = "done" /\ ArtsOf(j) = {}

\* C18: a pdf-to-images job that has not been answered yet and whose
\* rasterizer is absent is answered with the feature-unavailable status (501),
\* not with the status of a runtime failure (500).
C18_RasterizerAbsent ==
  [][\A j \in AllJobs, runOk \in BOOLEAN :
       (FinishImages(j, FALSE, runOk) /\ resp[j] = 0) => resp'[j] = 501]_vars

\* C19: a request whose route fails its validation never acquired a slot and
\* has no upload on disk when it is answered.
C19_ValidateFirst ==
  [][\A j \in AllJobs, k \in Kinds, n \in 0..MaxFiles, hasLibre \in BOOLEAN :
       (StartHandler(j, k, n, hasLibre) /\ ValidationFails(k, n))
         => (~InSeq(admitSeq, j) /\ {a \in fs' : a[1] = j} = {})]_vars

\* C20: a job that has been answered keeps its answer; it holds no slot, is
\* in no wait list and never acquires a slot afterwards; a job acquires a slot
\* at most once; and activeRequests is decremented only by the first response
\* of a job that holds a slot, by one.
C20_OneOutcome ==
  /\ [][\A j \in AllJobs : resp[j] # 0 => resp'[j] = resp[j]]_vars
  /\ [](\A j \in AllJobs :
          resp[j] # 0
            => (j \notin holders /\ ~InSeq(requestQueue, j) /\ ~InSeq(immediates, j)))
  /\ [][\A j \in AllJobs :
          (j \notin holders /\ j \in holders') => (resp[j] = 0 /\ ~InSeq(admitSeq, j))]_vars
  /\ [][activeRequests' < activeRequests
          => \E j \in holders :
               /\ resp[j] = 0 /\ resp'[j] # 0
               /\ holders' = holders \ {j}
               /\ activeRequests' = activeRequests - 1]_vars

\* the handler of a job answered 504 has completed late, another job holds
\* the slot, and the answer is still 504
C20_Witness ==
  \E j \in overran : resp[j] = 504 /\ phase[j] = "done" /\ holders # {}

\* C21: whatever made the collaborator throw, no field of the body of a 500
\* response embeds an internal path.
C21_NoPaths ==
  [][\A j \in AllJobs :
       (resp[j] = 0 /\ resp'[j] = 500)
         => \A cause \in CausesOf(kind[j]) :
              LET sent == Body(j, 500, kind[j], cause)
              IN \A f \in DOMAIN sent : sent[f].paths = {}]_vars

FailureCodes == {400, 413, 500, 501, 503, 504}

\* C22: the body sent with every failure status has an error field and a
\* message field.
C22_ErrorAndMessage ==
  [][\A j \in AllJobs :
       (resp[j] = 0 /\ resp'[j] \in FailureCodes)
         => \A cause \in CausesOf(kind'[j]) :
              {"error", "message"} \subseteq DOMAIN Body(j, resp'[j], kind'[j], cause)]_vars

\* C23: two files that multer has stored have different paths, also when
\* they have the same original name and when they are stored within the same
\* millisecond.
C23_DistinctPaths ==
  \A a, b \in 1..Len(uploads) : a # b => uploads[a].path # uploads[b].path

\* C24: in the full-featured variant the file a document job picks, sends
\* and unlinks is the one its own conversion wrote.
C24_OwnOutput ==
  \A j \in FullJobs : conv[j].picked \in {0, j} /\ conv[j].sent \in {0, j}

\* C25: a probe never raises; it yields true when the invocation succeeds
\* and false on every invocation failure.
C25_ProbeTotal ==
  call.fn \in Probes => (~call.threw /\ call.out = (call.in = "exit 0"))

\* a probe has run on a host without the binary
C25_Witness ==
  call.fn = "checkLibreOffice" /\ call.in = "not found" /\ ~call.out /\ ~call.threw

\* C26: a request that arrives while a slot is free is admitted at once and
\* never enters the wait list; one that arrives while every slot is taken is
\* appended at the tail of the wait list and acquires a slot only after a
\* release has dequeued it; with one slot, a job holds the slot only when
\* the response of every job admitted before it has ended.
C26_AdmitBySlotCount ==
  /\ [][\A j \in AllJobs :
          (phase[j] = "idle" /\ phase'[j] # "idle")
            => IF activeRequests < MAX_CONCURRENT_REQUESTS
               THEN /\ phase'[j] = "admitted" /\ j \in holders'
                    /\ requestQueue' = requestQueue /\ j \notin waited'
               ELSE /\ phase'[j] = "waiting" /\ j \notin holders'
                    /\ requestQueue' = Append(requestQueue, j)]_vars
  /\ [][\A j \in AllJobs :
          (phase[j] = "waiting" /\ j \in holders')
            => /\ immediates # <<>> /\ j = Head(immediates)
               /\ activeRequests < MAX_CONCURRENT_REQUESTS]_vars
  /\ [][\A j \in AllJobs :
          (~InSeq(immediates, j) /\ InSeq(immediates', j))
            => /\ activeRequests' = activeRequests - 1
               /\ requestQueue # <<>> /\ j = Head(requestQueue)]_vars
  /\ [](MAX_CONCURRENT_REQUESTS = 1
          => \A a, b \in AllJobs :
               (b \in holders /\ InSeq(admitSeq, a) /\ Pos(admitSeq, a) < Pos(admitSeq, b))
                 => resp[a] # 0)

\* a job that found the slot taken and waited now holds it, after the job
\* admitted before it was answered
C26_Witness ==
  \E a \in AllJobs, b \in waited :
    /\ b \in holders /\ resp[b] = 0
    /\ InSeq(admitSeq, a) /\ Pos(admitSeq, a) < Pos(admitSeq, b) /\ resp[a] # 0

\* C27: a step dequeues at most one entry; a dequeued entry that re-enters
\* while every slot is taken goes back to the wait list and takes no slot; and
\* a job that is waiting is always held exactly once, in the wait list or
\* among the dequeued entries about to re-enter, while no other job is held
\* there.
C27_NoneLost ==
  /\ [](\A j \in AllJobs :
          Count(requestQueue, j) + Count(immediates, j)
            = IF phase[j] = "waiting" THEN 1 ELSE 0)
  /\ [](activeRequests <= MAX_CONCURRENT_REQUESTS)
  /\ [][/\ Len(requestQueue') >= Len(requestQueue) - 1
        /\ Len(immediates') <= Len(immediates) + 1]_vars
  /\ [][(Reenter /\ Saturated)
          => /\ requestQueue' = Append(requestQueue, Head(immediates))
             /\ activeRequests' = activeRequests
             /\ holders' = holders]_vars

\* an entry was dequeued, found the slot taken again and is back in the wait
\* list, where both of its queue timers are armed
C27_Witness ==
  \E j \in AllJobs :
    /\ phase[j] = "waiting" /\ InSeq(requestQueue, j)
    /\ Count(clock, QTimer(j)) = 2

C29_TimersScoped ==
  /\ [][\A j \in AllJobs :
          (QueueTimeout(j) /\ phase[j] # "waiting")
            => UNCHANGED <<resp, requestQueue, immediates, activeRequests,
                           holders, phase>>]_vars
  /\ [](\A j \in AllJobs :
          InSeq(clock, XTimer(j)) <=> (j \in holders /\ resp[j] = 0))
  /\ [](\A j \in AllJobs : Count(clock, XTimer(j)) <= 1)
  /\ [][\A j \in AllJobs :
          ExecTimeout(j) => (resp[j] = 0 /\ resp'[j] = 504 /\ j \notin holders')]_vars
  /\ [][\A j \in AllJobs :
          (resp[j] # 504 /\ resp'[j] = 504) => (resp[j] = 0 /\ j \in holders)]_vars

\* the queue timer of a job whose client is still there went off without a
\* rejection, the job was admitted, and its execution timer answered 504
C29_Witness ==
  \E j \in waited \ closed :
    /\ Count(clock, QTimer(j)) = 0 /\ ~InSeq(clock, XTimer(j))
    /\ resp[j] = 504 /\ j \notin holders /\ InSeq(admitSeq, j)

\* C30: the execution timer of a job without a response answers 504; an
\* answer of 504 is never replaced; and a job whose execution timer fired
\* while its collaborator ran is answered 504 and stays so when the
\* collaborator fails afterwards, whatever the failure leaves on disk.
C30_TimeoutClass ==
  /\ [][\A j \in AllJobs :
          (ExecTimeout(j) /\ resp[j] = 0) => resp'[j] = 504]_vars
  /\ [][\A j \in AllJobs : resp[j] = 504 => resp'[j] = 504]_vars
  /\ [](\A j \in overran : resp[j] = 504 /\ resp[j] # 500)
  /\ [][\A j \in overran :
          (\/ \E wrote \in BOOLEAN : FinishOther(j, FALSE, wrote)
           \/ \E hasGs, gsOk, wrote \in BOOLEAN :
                 FinishCompress(j, hasGs, gsOk, FALSE, wrote)
           \/ \E hasRasterizer \in BOOLEAN : FinishImages(j, hasRasterizer, FALSE))
            => resp'[j] = 504]_vars

\* a merge that ran past its deadline was answered 504, then failed without
\* an output file (its uploads are still young, so no sweep took one), and
\* is at its finally block with the answer unchanged
C30_Witness ==
  \E j \in overran :
    /\ kind[j] = "merge" /\ phase[j] = "cleanup"
    /\ <<j, OutFile>> \notin fs /\ InSeq(clock, MTime(j, "in"))
    /\ resp[j] = 504 /\ j \notin holders

\* C31: safeUnlink, safeRmdir and cleanupFiles never raise, whatever the
\* path (undefined, not on disk, not removable); safeUnlink removes the file
\* it can remove and nothing else, safeRmdir the entry it can remove, and
\* cleanupFiles leaves none of the removable files among its paths, also
\* when the deletion of another of its paths failed.
C31_ReleaseTotal ==
  call.fn \in Releasers
    => /\ ~call.threw
       /\ call.out =
            call.disk \ {a \in call.paths :
                           IF call.fn = "safeRmdir" THEN a[2] # Locked ELSE IsFile(a)}

\* cleanupFiles was given an undefined path, a path that is not on disk, a
\* directory and a file, and the file is gone
C31_Witness ==
  /\ call.fn = "cleanupFiles"
  /\ call.paths = {undefined, <<1, OutFile>>, <<1, ImgDir>>, <<1, <<"in", 1>>>>}
  /\ call.disk = {<<1, ImgDir>>, <<1, <<"in", 1>>>>}
  /\ call.out = {<<1, ImgDir>>}
  /\ ~call.threw

\* C32: a sweep never raises, and it removes every old file of uploads/ and
\* output/ and every LibreOffice directory of /tmp that can be removed,
\* whatever other entries fail to be removed in the same run.
C32_SweepContinues ==
  call.fn = "sweep"
    => /\ ~call.threw
       /\ call.out =
            call.disk \ {a \in call.disk : (IsFile(a) /\ a \in call.old) \/ IsLoDir(a)}

\* a sweep met an old directory and an old entry it may not remove in
\* output/, and still removed the old files and the profile directory
C32_Witness ==
  /\ call.fn = "sweep"
  /\ call.disk = Entries /\ call.old = Entries
  /\ call.out = {<<1, ImgDir>>, <<1, Locked>>}
  /\ ~call.threw

\* C33: a step that changes activeRequests or requestQueue is a run of the
\* middleware (arrival or re-entry), the end of a slot holder's response in
\* the wrapper, or a queue timer; the finally blocks, the sweep, the passing
\* of time, a 'close' and the health endpoint change neither; and the health
\* endpoint, which can answer in every state of the gate, reports
\* activeRequests and the length of requestQueue as they are.
C33_Frame ==
  /\ [][(activeRequests' # activeRequests \/ requestQueue' # requestQueue)
          => /\ \/ \E j \in AllJobs : Arrive(j)
                \/ Reenter
                \/ \E j \in AllJobs : QueueTimeout(j)
                \/ \E j \in holders :
                      /\ resp[j] = 0 /\ resp'[j] # 0 /\ holders' = holders \ {j}
                      /\ activeRequests' = activeRequests - 1
             /\ ~ \/ \E j \in AllJobs : Cleanup(j) \/ Close(j)
                  \/ Sweep \/ Age \/ HealthStart
                  \/ \E hasGs, hasLibre \in BOOLEAN : HealthRespond(hasGs, hasLibre)]_vars
  /\ [](call = [fn |-> "health"]
          => /\ ENABLED (\E hasGs, hasLibre \in BOOLEAN : HealthRespond(hasGs, hasLibre))
             /\ \A hasGs, hasLibre \in BOOLEAN :
                  /\ healthBody(hasGs, hasLibre).active = activeRequests
                  /\ healthBody(hasGs, hasLibre).queued = Len(requestQueue))

\* the health endpoint is about to answer while the slot is taken and a job
\* is in the wait list
C33_Witness ==
  /\ call = [fn |-> "health"]
  /\ activeRequests = MAX_CONCURRENT_REQUESTS
  /\ requestQueue # <<>>

\* C34: when a queue timer fires for a job in the wait list, activeRequests,
\* the slot holders and the pending re-entries stay as they are, no other
\* job's phase or response changes, and every other entry is still in the wait
\* list, in the same order.
C34_ExpiryLocal ==
  [][\A j \in AllJobs :
       (/\ Count(clock', QTimer(j)) < Count(clock, QTimer(j))
        /\ closed' = closed
        /\ InSeq(requestQueue, j))
         => /\ activeRequests' = activeRequests
            /\ holders' = holders
            /\ immediates' = immediates
            /\ Len(requestQueue') = Len(requestQueue) - 1
            /\ \A i \in AllJobs \ {j} :
                 /\ phase'[i] = phase[i] /\ resp'[i] = resp[i]
                 /\ InSeq(requestQueue, i) => InSeq(requestQueue', i)
            /\ \A a, b \in AllJobs \ {j} :
                 (InSeq(requestQueue, a) /\ InSeq(requestQueue, b)
                    /\ Pos(requestQueue, a) < Pos(requestQueue, b))
                   => Pos(requestQueue', a) < Pos(requestQueue', b)]_vars

\* a job was rejected by its queue timer while two other jobs, which arrived
\* after it, are in the wait list and the slot is taken
C34_Witness ==
  \E j, a, b \in AllJobs :
    /\ resp[j] = 503 /\ j < a /\ a < b
    /\ requestQueue = <<a, b>>
    /\ activeRequests = MAX_CONCURRENT_REQUESTS

\* C35: activeRequests is never negative; a step lowers it by one, for one
\* job that holds a slot and stops holding it; and a job acquires a slot at
\* most once, so no job's slot is given back twice.
C35_ReleasedOnce ==
  /\ [](activeRequests >= 0)
  /\ [](\A j \in AllJobs : Count(admitSeq, j) <= 1)
  /\ [][activeRequests' < activeRequests
          => /\ activeRequests' = activeRequests - 1
             /\ \E j \in holders : holders' = holders \ {j} /\ resp[j] = 0]_vars
  /\ [][\A j \in AllJobs :
          (resp[j] # 0 /\ InSeq(admitSeq, j))
            => (j \notin holders /\ j \notin holders')]_vars

\* a job was answered 504 by its execution timer, its collaborator returned
\* afterwards, the route tried to answer and finished, and no slot is held
C35_Witness ==
  \E j \in overran :
    /\ phase[j] = "done" /\ resp[j] = 504
    /\ activeRequests = 0 /\ holders = {}

\* C36: whenever the wait list is not empty, every slot is taken or an entry
\* dequeued by a release is waiting for its re-entry.
C36_WorkConserving ==
  requestQueue # <<>>
    => (activeRequests = MAX_CONCURRENT_REQUESTS \/ immediates # <<>>)

\* a release left the slot free with a job still in the wait list, and the
\* entry it dequeued has not re-entered yet
C36_Witness ==
  /\ requestQueue # <<>>
  /\ activeRequests < MAX_CONCURRENT_REQUESTS
  /\ immediates # <<>>

\* the digits of str up to its end or its first character that is no digit
RECURSIVE DigitPrefix(_)
DigitPrefix(str) ==
  IF str = <<>> \/ Head(str) \notin Digits THEN <<>>
  ELSE <<Head(str)>> \o DigitPrefix(Tail(str))

\* the text of a decimal number: an optional sign, digits, and possibly a
\* point followed by digits
IsNumber(str) ==
  LET body == IF str # <<>> /\ Head(str) = "-" THEN Tail(str) ELSE str
      whole == DigitPrefix(body)
      rest == SubSeq(body, Len(whole) + 1, Len(body))
  IN /\ whole # <<>>
     /\ \/ rest = <<>>
        \/ /\ Len(rest) >= 2 /\ Head(rest) = "."
           /\ Len(DigitPrefix(Tail(rest))) = Len(rest) - 1

\* the number str is the text of is at most k
AtMost(str, k) ==
  LET neg == Head(str) = "-"
      body == IF neg THEN Tail(str) ELSE str
      whole == DigitPrefix(body)
      frac == SubSeq(body, Len(whole) + 2, Len(body))
  IN \/ neg
     \/ ScanDigits(whole, 0) < k
     \/ ScanDigits(whole, 0) = k /\ \A i \in 1..Len(frac) : frac[i] = "0"

\* C37: the quality setting is /printer for gentle and /screen for strong;
\* for any other level it is /screen for a target of at most 200, /ebook for
\* a target above 200 and at most 500, and /printer for a target above 500
\* and for a target that is missing or is not a number.
C37_Quality ==
  call.fn = "quality"
    => call.out =
         IF call.level = "gentle" THEN "/printer"
         ELSE IF call.level = "strong" THEN "/screen"
         ELSE IF ~IsNumber(call.target) THEN "/printer"
         ELSE IF AtMost(call.target, 200) THEN "/screen"
         ELSE IF AtMost(call.target, 500) THEN "/ebook"
         ELSE "/printer"

\* the characters of [a-zA-Z0-9._-] that names and stored names are made of
SafeChars == {"a", "A", ".", "_", "-"}

\* C38: every character of the name an upload is stored under is one of
\* [a-zA-Z0-9._-], whatever the original name.
C38_SafeNames ==
  \A i \in 1..Len(uploads) :
    \A h \in 1..Len(uploads[i].path.name) : uploads[i].path.name[h] \in SafeChars

====
